---- MODULE Spec2Model ----
(***************************************************************************)
(* Model of the `tree` command (src/src/main.rs): a directory tree is      *)
(* walked in pre-order, the visited entries are collected into a vector,   *)
(* and every collected entry is rendered as one line made of an indent     *)
(* prefix, a branch connector, a styled name and a metadata suffix.        *)
(*                                                                         *)
(* Indices follow the source: `index`, `depth` and positions in last_dirs  *)
(* are 0-based, so element k of a Rust vector v is v[k + 1] here.          *)
(***************************************************************************)
EXTENDS Integers, Sequences, FiniteSets

VARIABLES
    tree,       \* the directory tree on disk, in WalkDir's pre-order
    args,       \* the parsed command line (struct Args)
    pc,         \* position in main: "start", "walk", "render", "done"
    pos,        \* position of the walker in the pre-order of the tree
    failed,     \* nodes for which the walker yielded Err
    entries,    \* Vec of the collected entries
    index,      \* loop counter of the render loop
    last_dirs,  \* Vec<bool>, last-entry flag per depth
    lines,      \* the lines written to the output sink
    result      \* how main ended: "running", "Ok", "Err", "panic"

vars == <<tree, args, pc, pos, failed, entries, index, last_dirs, lines, result>>

(* ------------------------------ bounds --------------------------------- *)

\* number of nodes of a tree on disk (structure runs: plain and hidden names)
MaxNodes == 5
\* number of nodes of a tree on disk (attribute runs: every kind and name)
MaxAttrNodes == 3
\* largest value given to --level
MaxLevel == 2
\* length and largest depth of an arbitrary depth sequence fed to the renderer
MaxAnyLen == 3

(* ---------------------------- the inputs ------------------------------- *)

\* A file name is modelled by what is_hidden reads of it: whether its first
\* character is '.', and whether it is valid Unicode (OsStr::to_str is Some).
PlainName  == [dot |-> FALSE, utf8 |-> TRUE]
DotName    == [dot |-> TRUE,  utf8 |-> TRUE]
RawDotName == [dot |-> TRUE,  utf8 |-> FALSE]

Kinds == {"dir", "file", "symlink"}

\* Option<usize>: None is <<>>, Some(m) is <<m>>
NoLevel == <<>>
Levels == {NoLevel} \cup {<<m>> : m \in 0..MaxLevel}

\* depth sequences of the pre-order walks of the trees with n nodes
Shapes(n) ==
    {s \in [1..n -> 0..(n - 1)] :
        /\ s[1] = 0
        /\ \A i \in 2..n : s[i] >= 1 /\ s[i] <= s[i - 1] + 1}

HasChild(s, i) == i < Len(s) /\ s[i + 1] > s[i]

\* the trees with at most maxN nodes, names and leaf kinds from the given sets
Trees(maxN, rootNames, names, leafKinds) ==
    UNION {
        {[i \in 1..n |-> [id |-> i, depth |-> s[i], name |-> nm[i], kind |-> kd[i]]] :
            <<s, nm, kd>> \in
                {t \in Shapes(n) \X [1..n -> names \cup rootNames] \X [1..n -> leafKinds \cup {"dir"}] :
                    /\ t[2][1] \in rootNames
                    /\ \A i \in 2..n : t[2][i] \in names
                    /\ \A i \in 1..n : IF HasChild(t[1], i)
                                         THEN t[3][i] = "dir"
                                         ELSE t[3][i] \in leafKinds}}
        : n \in 1..maxN}

\* the command lines, with --no-color drawn from the given set
ArgSets(noColors) ==
    [level : Levels, all : BOOLEAN, no_color : noColors, output : {"stdout", "file"}]

(* --------------------------- pure functions ---------------------------- *)

\* is_hidden: to_str().map(starts_with('.')).unwrap_or(false)
is_hidden(e) == IF e.name.utf8 THEN e.name.dot ELSE FALSE

\* the filter_entry closure
FilterEntry(e, show_hidden) ==
    IF e.depth = 0 THEN TRUE ELSE (~is_hidden(e)) \/ show_hidden

\* the depth filter with an exclusive limit
DepthFilterExclusive(e, level) ==
    IF level # NoLevel THEN e.depth < level[1] ELSE TRUE

\* the depth filter applied when --level is given
DepthFilter(e, level) ==
    IF level # NoLevel THEN e.depth <= level[1] ELSE TRUE

\* the walker's position after leaving the subtree of node p unvisited
SkipSubtree(t, p) ==
    LET later == {j \in (p + 1)..Len(t) : t[j].depth <= t[p].depth}
    IN  IF later = {} THEN Len(t) + 1
        ELSE CHOOSE j \in later : \A k \in later : j <= k

\* is_last with the comparison of the depths turned round
IsLastFlipped(es, idx) ==
    LET next_index == idx + 1
    IN  IF next_index >= Len(es) THEN TRUE
        ELSE es[next_index + 1].depth > es[idx + 1].depth

\* is_last of the entry at `idx`
IsLast(es, idx) ==
    LET next_index == idx + 1
    IN  IF next_index >= Len(es) THEN TRUE
        ELSE es[next_index + 1].depth < es[idx + 1].depth

\* the update of last_dirs
UpdateLastDirs(ld, depth, is_last) ==
    IF depth >= Len(ld) THEN Append(ld, is_last)
    ELSE [ld EXCEPT ![depth + 1] = is_last]

\* last_dirs.get(d).cloned().unwrap_or(false)
GetOrFalse(ld, d) == IF d < Len(ld) THEN ld[d + 1] ELSE FALSE

\* the indent blocks of the prefix, one per d in 1..depth (exclusive)
Indent(ld, depth) ==
    [d \in 1..(depth - 1) |-> IF GetOrFalse(ld, d) THEN "BLANK" ELSE "VBAR"]

\* the branch connector
Connector(depth, is_last) ==
    IF depth > 0 THEN (IF is_last THEN "CORNER" ELSE "TEE") ELSE "NONE"

\* the styles put on the file name
StyledName(kind, no_color) ==
    IF kind = "dir" THEN (IF no_color THEN {"bold"} ELSE {"bold", "blue"})
    ELSE IF kind = "symlink" THEN (IF no_color THEN {"green"} ELSE {"green"})
    ELSE {}

\* what follows the name
DisplayName(kind, linkOk) ==
    IF kind = "symlink" THEN (IF linkOk THEN "target" ELSE "unresolved") ELSE "none"

\* a sink that keeps only the most recent line
WritelnOverwrite(out, line) == <<line>>

\* writeln! on the sink
Writeln(out, line) == Append(out, line)

\* the line of the entry at `idx`, given the updated last_dirs
Line(es, idx, ld, no_color, linkOk) ==
    LET entry == es[idx + 1]
        is_last == IsLast(es, idx)
    IN  [id        |-> entry.id,
         depth     |-> entry.depth,
         is_last   |-> is_last,
         indent    |-> Indent(ld, entry.depth),
         connector |-> Connector(entry.depth, is_last),
         style     |-> StyledName(entry.kind, no_color),
         link      |-> DisplayName(entry.kind, linkOk)]

(* ------------------------------ actions -------------------------------- *)

InitWith(trees, argSets) ==
    /\ tree \in trees
    /\ args \in argSets
    /\ pc = "start"
    /\ pos = 1
    /\ failed = {}
    /\ entries = <<>>
    /\ index = 0
    /\ last_dirs = <<>>
    /\ lines = <<>>
    /\ result = "running"

\* structure runs: larger trees of directories and files with plain or hidden
\* names, styling left on
Init == InitWith(Trees(MaxNodes, {PlainName}, {PlainName, DotName}, {"file"}),
                 ArgSets({FALSE}))

\* attribute runs: smaller trees with every kind of entry and of name
InitAttr == InitWith(Trees(MaxAttrNodes, {PlainName, DotName, RawDotName},
                           {PlainName, DotName, RawDotName}, Kinds),
                     ArgSets(BOOLEAN))

\* the output sink is opened (File::create succeeds, or stdout)
Start ==
    /\ pc = "start"
    /\ pc' = "walk"
    /\ UNCHANGED <<tree, args, pos, failed, entries, index, last_dirs, lines, result>>

\* File::create fails and `?` returns the error
StartFail ==
    /\ pc = "start"
    /\ args.output = "file"
    /\ pc' = "done"
    /\ result' = "Err"
    /\ UNCHANGED <<tree, args, pos, failed, entries, index, last_dirs, lines>>

\* the walker yields Err for the next node (unreadable, vanished, or a root
\* that does not exist); filter_map(ok) drops it, and nothing below an
\* unreadable node is visited
WalkErr ==
    /\ pc = "walk"
    /\ pos <= Len(tree)
    /\ failed' = failed \cup {pos}
    /\ pos' = SkipSubtree(tree, pos)
    /\ UNCHANGED <<tree, args, pc, entries, index, last_dirs, lines, result>>

\* filter_entry rejects the next node and skips its directory
WalkFiltered ==
    /\ pc = "walk"
    /\ pos <= Len(tree)
    /\ ~FilterEntry(tree[pos], args.all)
    /\ pos' = IF tree[pos].kind = "dir" THEN SkipSubtree(tree, pos) ELSE pos + 1
    /\ UNCHANGED <<tree, args, pc, failed, entries, index, last_dirs, lines, result>>

\* the walker yields the next node; it is collected if the depth filter keeps it
WalkYield ==
    /\ pc = "walk"
    /\ pos <= Len(tree)
    /\ FilterEntry(tree[pos], args.all)
    /\ entries' = IF DepthFilter(tree[pos], args.level)
                  THEN Append(entries, tree[pos]) ELSE entries
    /\ pos' = pos + 1
    /\ UNCHANGED <<tree, args, pc, failed, index, last_dirs, lines, result>>

\* the walker is exhausted: collect() returns and the render loop starts
WalkEnd ==
    /\ pc = "walk"
    /\ pos > Len(tree)
    /\ pc' = "render"
    /\ UNCHANGED <<tree, args, pos, failed, entries, index, last_dirs, lines, result>>

\* one iteration of the render loop, the line is written
RenderLine ==
    /\ pc = "render"
    /\ index < Len(entries)
    /\ \E linkOk \in BOOLEAN :
        LET ld == UpdateLastDirs(last_dirs, entries[index + 1].depth, IsLast(entries, index))
        IN  /\ last_dirs' = ld
            /\ lines' = Writeln(lines, Line(entries, index, ld, args.no_color, linkOk))
    /\ index' = index + 1
    /\ UNCHANGED <<tree, args, pc, pos, failed, entries, result>>

\* one iteration of the render loop, entry.metadata() or modified() is Err: unwrap panics
RenderPanic ==
    /\ pc = "render"
    /\ index < Len(entries)
    /\ last_dirs' = UpdateLastDirs(last_dirs, entries[index + 1].depth, IsLast(entries, index))
    /\ pc' = "done"
    /\ result' = "panic"
    /\ UNCHANGED <<tree, args, pos, failed, entries, index, lines>>

\* one iteration of the render loop, writeln! fails and `?` returns the error
RenderWriteFail ==
    /\ pc = "render"
    /\ index < Len(entries)
    /\ last_dirs' = UpdateLastDirs(last_dirs, entries[index + 1].depth, IsLast(entries, index))
    /\ pc' = "done"
    /\ result' = "Err"
    /\ UNCHANGED <<tree, args, pos, failed, entries, index, lines>>

\* the loop is over: Ok(())
Finish ==
    /\ pc = "render"
    /\ index >= Len(entries)
    /\ pc' = "done"
    /\ result' = "Ok"
    /\ UNCHANGED <<tree, args, pos, failed, entries, index, last_dirs, lines>>

Next ==
    \/ Start
    \/ StartFail
    \/ WalkErr
    \/ WalkFiltered
    \/ WalkYield
    \/ WalkEnd
    \/ RenderLine
    \/ RenderPanic
    \/ RenderWriteFail
    \/ Finish

Spec == Init /\ [][Next]_vars

SpecAttr == InitAttr /\ [][Next]_vars

(* --------------- the renderer on arbitrary depth sequences ------------- *)

\* every sequence of at most MaxAnyLen entries with depths in 0..MaxAnyLen
AnyEntries ==
    UNION {
        {[i \in 1..n |-> [id |-> i, depth |-> d[i], name |-> PlainName, kind |-> "file"]] :
            d \in [1..n -> 0..MaxAnyLen]}
        : n \in 1..MaxAnyLen}

InitAny ==
    /\ entries \in AnyEntries
    /\ tree = entries
    /\ args \in [level : {NoLevel}, all : BOOLEAN, no_color : BOOLEAN, output : {"stdout"}]
    /\ pc = "render"
    /\ pos = Len(tree) + 1
    /\ failed = {}
    /\ index = 0
    /\ last_dirs = <<>>
    /\ lines = <<>>
    /\ result = "running"

NextAny ==
    \/ RenderLine
    \/ RenderPanic
    \/ RenderWriteFail
    \/ Finish

SpecAny == InitAny /\ [][NextAny]_vars

(* ------------------------- notions of the claims ----------------------- *)

\* the walk is over and its result has been collected
Collected == pc \in {"render", "done"} /\ pos > Len(tree)

\* the ancestors of node i of pre-order t, and i itself
AncestorsOrSelf(t, i) ==
    {i} \cup {j \in 1..(i - 1) :
                /\ t[j].depth < t[i].depth
                /\ \A k \in (j + 1)..i : t[k].depth > t[j].depth}

\* node i is reached by the walk: neither it nor an ancestor is hidden away or unreadable
Reached(i) ==
    \A j \in AncestorsOrSelf(tree, i) :
        /\ j \notin failed
        /\ (tree[j].depth >= 1 /\ is_hidden(tree[j])) => args.all

\* the nodes the run keeps: reached and within the depth limit
Retained ==
    {i \in 1..Len(tree) :
        /\ Reached(i)
        /\ args.level # NoLevel => tree[i].depth <= args.level[1]}

\* entry k (1-based) of es is the last child of its parent: the next entry
\* that is not deeper, if any, is shallower
IsLastChild(es, k) ==
    \A j \in (k + 1)..Len(es) :
        es[j].depth = es[k].depth =>
            \E m \in (k + 1)..(j - 1) : es[m].depth < es[k].depth

\* the ancestor at depth a of entry k (1-based) of es
AncestorAt(es, k, a) ==
    CHOOSE j \in 1..(k - 1) :
        /\ es[j].depth = a
        /\ \A m \in (j + 1)..(k - 1) : es[m].depth # a

\* the global formulation of isLast for entry k (1-based)
GlobalIsLast(es, k) ==
    k = Len(es) \/ \A j \in (k + 1)..Len(es) : es[j].depth < es[k].depth

\* the entry the render loop handled most recently (1-based), 0 if none
LastHandled ==
    IF result \in {"panic", "Err"} /\ index < Len(entries) /\ pc = "done" /\ pos > Len(tree)
    THEN index + 1
    ELSE index

(* ------------------------------- claims -------------------------------- *)

\* C1 (as stated): for every rendered entry, the isLast the renderer computes
\* is true if and only if the entry is the final one or every entry after it
\* is strictly shallower.
C1_LocalEqualsGlobal ==
    \A k \in 1..Len(lines) : lines[k].is_last <=> GlobalIsLast(entries, k)

\* C1 (amended): whenever a rendered entry is the final one or every entry
\* after it is strictly shallower, its isLast is true; and when its isLast is
\* true, it is the final entry or the entry right after it is strictly shallower.
C1_GlobalImpliesLocal ==
    \A k \in 1..Len(lines) :
        /\ GlobalIsLast(entries, k) => lines[k].is_last
        /\ lines[k].is_last => (k = Len(entries) \/ entries[k + 1].depth < entries[k].depth)

\* C1 witness: a rendered entry that is not the final one, is followed only by
\* shallower entries, and was given isLast = true.
C1_Witness ==
    \E k \in 1..Len(lines) :
        /\ k + 1 < Len(entries)
        /\ GlobalIsLast(entries, k)
        /\ lines[k].is_last

\* C2: every rendered entry of depth >= 1 has the corner connector exactly when
\* it is the last child of its parent among the retained entries, and the tee
\* connector otherwise.
C2_ConnectorIsLastChild ==
    \A k \in 1..Len(lines) :
        lines[k].depth >= 1 =>
            lines[k].connector = (IF IsLastChild(entries, k) THEN "CORNER" ELSE "TEE")

\* C3: in every rendered line, the block of ancestor level a is the vertical
\* bar exactly when the ancestor at depth a has a later sibling, and blank
\* exactly when it is the last child of its parent.
C3_IndentFollowsAncestors ==
    \A k \in 1..Len(lines) :
        \A a \in 1..(lines[k].depth - 1) :
            lines[k].indent[a] =
                (IF IsLastChild(entries, AncestorAt(entries, k, a)) THEN "BLANK" ELSE "VBAR")

\* C4: when the run ends with Ok, there is exactly one line per collected
\* entry, in the order of the entries, and the number of lines is the number
\* of nodes the walk keeps under the hidden and depth filters and the read errors.
C4_OneLinePerEntry ==
    (pc = "done" /\ result = "Ok") =>
        /\ Len(lines) = Len(entries)
        /\ \A k \in 1..Len(lines) : lines[k].id = entries[k].id
        /\ \A k \in 1..(Len(lines) - 1) : lines[k].id < lines[k + 1].id
        /\ Len(lines) = Cardinality(Retained)

\* C4 witness: a successful run that wrote several lines although a node was
\* unreadable and another was filtered out.
C4_Witness ==
    /\ pc = "done" /\ result = "Ok"
    /\ Len(lines) >= 3
    /\ failed # {}
    /\ Cardinality(Retained) + Cardinality(failed) < Len(tree)

\* C5: no per-entry error ends the run: main never panics.
C5_NoPerEntryAbort == result # "panic"

\* C6: when the root cannot be read, the run does not end with Ok.
C6_RootFailureReported == (pc = "done" /\ 1 \in failed) => result # "Ok"

\* C7: with --level m, the collected entries are exactly the walk's entries of
\* depth <= m, in walk order, and the isLast of every rendered entry is decided
\* from the next retained entry.
C7_DepthLimit ==
    (Collected /\ args.level # NoLevel) =>
        /\ {entries[k].id : k \in 1..Len(entries)}
              = {i \in 1..Len(tree) : Reached(i) /\ tree[i].depth <= args.level[1]}
        /\ \A k \in 1..(Len(entries) - 1) : entries[k].id < entries[k + 1].id
        /\ \A k \in 1..Len(lines) :
              /\ lines[k].id = entries[k].id
              /\ lines[k].is_last
                    <=> (k = Len(entries) \/ entries[k + 1].depth < entries[k].depth)

\* C7 witness: with --level 1 a directory at depth 1 that has a reached child
\* at depth 2 is rendered as the final entry, with isLast = true.
C7_Witness ==
    /\ pc = "done" /\ result = "Ok"
    /\ args.level = <<1>>
    /\ \E k \in 1..Len(lines) :
          /\ lines[k].depth = 1
          /\ lines[k].is_last
          /\ lines[k].id < Len(tree)
          /\ tree[lines[k].id + 1].depth = 2
          /\ Reached(lines[k].id + 1)

\* C8: without --all no collected entry of depth >= 1 has a name that begins
\* with '.'; with --all every such node that is read and within the depth limit
\* is collected; and a readable root is collected whatever its name.
C8_HiddenPolicy ==
    Collected =>
        /\ ~args.all =>
              \A k \in 1..Len(entries) : entries[k].depth >= 1 => ~entries[k].name.dot
        /\ args.all =>
              \A i \in Retained : \E k \in 1..Len(entries) : entries[k].id = i
        /\ 1 \notin failed => (Len(entries) >= 1 /\ entries[1].id = 1)

\* C9: with --no-color the name of every rendered entry carries no style.
C9_NoColorNoStyle ==
    args.no_color => \A k \in 1..Len(lines) : lines[k].style = {}

====
